---- MODULE Spec2Model ----
(***************************************************************************)
(* OptiCmsClient (src/src/index.ts): the OAuth2 token lifecycle and the    *)
(* request pipeline of the client, as a state machine.  Every `await` of   *)
(* the source is a suspension point: the code between two awaits is one    *)
(* atomic action, and calls issued concurrently interleave at the awaits.  *)
(***************************************************************************)
EXTENDS Integers, Sequences, FiniteSets, TLC

VARIABLES
    now,             \* Date.now(), in ms
    settings,        \* per client: the readonly fields set by the constructor
    accessToken,     \* per client: this.accessToken (optional string)
    tokenExpiresAt,  \* per client: this.tokenExpiresAt (optional number)
    ops              \* per call slot: one public call in progress

vars == <<now, settings, accessToken, tokenExpiresAt, ops>>

----------------------------------------------------------------------------
(* Bounds of the model *)

MaxTicks == 2        \* the clock advances at most this many steps
StartMs == 100000    \* Date.now() when the client is constructed

(* Program constants *)

bufferTime == 30000
DefaultTimeout == 30000
MsPerSecond == 1000

\* The clock advances in steps of one refresh buffer.
StepMs == bufferTime
MaxNow == StartMs + MaxTicks * StepMs

----------------------------------------------------------------------------
(* Optional values: undefined is <<>>, a present value v is <<v>> *)

None == <<>>
Some(v) == <<v>>

\* JavaScript truthiness of an optional string: undefined and '' are falsy.
Truthy(s) == s # None /\ s[1] # ""

\* JavaScript truthiness of an optional number: undefined and 0 are falsy.
TruthyNum(n) == n # None /\ n[1] # 0

\* HTTP statuses the network peer answers with, and response.ok.
HttpStatuses == {200, 404}
ResponseOk(status) == status >= 200 /\ status <= 299

----------------------------------------------------------------------------
(* Inputs *)

\* The client instances: each has its own settings and its own token state.
Clients == DOMAIN settings
\* The slots of the calls in flight: a slot holds one public call at a time.
Slots == DOMAIN ops

ConfiguredCredentials == [clientId |-> "cfg-id", clientSecret |-> "cfg-secret", actAs |-> None]
OverrideCredentials == [clientId |-> "ovr-id", clientSecret |-> "ovr-secret", actAs |-> Some("editor")]

\* What the token endpoint can answer with.
TokenPool == {"tA", "tB"}
ExpiresIns == {0, 60}
TokenResponses == [access_token : TokenPool, expires_in : ExpiresIns, token_type : {"Bearer"}]

\* Arguments of setAccessToken(token, expiresIn?).
SetterTokens == {"", "ext"}
SetterExpiresIns == {None, Some(0), Some(60)}

ContentKinds == {"getContent", "listContent", "createContent", "updateContent", "deleteContent"}

\* A JavaScript object is the sequence of its <<key, value>> entries in
\* insertion order; undefined and {} are both the empty sequence.
NoEntries == <<>>

\* ClientConfig objects passed to the constructor (an omitted field is None).
ClientConfigs ==
    [accessToken : {None, Some("ext")},
     credentials : {None, Some(ConfiguredCredentials)},
     timeout : {None},
     version : {None, Some("preview2")},
     autoRefreshToken : {None, Some(FALSE)},
     headers : {NoEntries}]

\* RequestOptions, with the pageIndex and pageSize of listContent().
NoOptions ==
    [headers |-> NoEntries, params |-> NoEntries, etag |-> None,
     pageIndex |-> None, pageSize |-> None]

\* Configurations and options of the calls whose request is looked at field
\* by field: a held token that is never refreshed, default headers with and
\* without a configured one, per-call headers that name the computed ones.
DispatchConfigs ==
    [accessToken : {Some("ext")},
     credentials : {None},
     timeout : {None},
     version : {None},
     autoRefreshToken : {Some(FALSE)},
     headers : {NoEntries, << <<"X-Site", "s1">> >>}]

CallerHeaders ==
    {NoEntries,
     << <<"Authorization", "Basic caller">>, <<"Content-Type", "text/plain">>,
        <<"X-Site", "s2">> >>,
     << <<"If-Match", "caller">> >>}

CallerParams ==
    {NoEntries,
     << <<"depth", 2>> >>,
     << <<"pageSize", 10>> >>,
     << <<"pageSize", 9>>, <<"pageIndex", 7>> >>,
     << <<"pageIndex", 7>>, <<"x", "y">>, <<"pageSize", 9>> >>,
     << <<"locale", "en">>, <<"draft", FALSE>>, <<"all", TRUE>>,
        <<"10", "a\"b">>, <<"9", "x\\">> >>}

CallerETags == {None, Some(""), Some("W/1")}

DispatchOptions(kind) ==
    [headers : CallerHeaders, params : CallerParams, etag : CallerETags,
     pageIndex : IF kind = "listContent" THEN {None, Some(0), Some(1)} ELSE {None},
     pageSize : IF kind = "listContent" THEN {None, Some(50)} ELSE {None}]

\* The ETag header of a 2xx response: absent, empty or a value.
ResponseETags == {None, Some(""), Some("v2")}

\* Error bodies of a non-2xx response: None is a body that does not parse.
ErrorDatas ==
    {None,
     Some([title |-> None, status |-> None, code |-> None]),
     Some([title |-> Some("Not Found"), status |-> Some(404), code |-> None]),
     Some([title |-> Some("Bad Request"), status |-> Some(400), code |-> Some("INVALID")])}

----------------------------------------------------------------------------
(* The constructor *)

\* a ?? b
Coalesce(a, b) == IF a = None THEN b ELSE a[1]

HasKey(obj, key) == \E i \in DOMAIN obj : obj[i][1] = key

\* obj[key] = value: an existing key keeps its place, a new one goes last.
Put(obj, key, value) ==
    IF HasKey(obj, key)
    THEN [i \in DOMAIN obj |-> IF obj[i][1] = key THEN <<key, value>> ELSE obj[i]]
    ELSE Append(obj, <<key, value>>)

\* obj[key], undefined when the key is missing
Get(obj, key) ==
    IF HasKey(obj, key)
    THEN Some(obj[CHOOSE i \in DOMAIN obj : obj[i][1] = key][2])
    ELSE None

\* {...a, ...b}
RECURSIVE Spread(_, _)
Spread(a, b) ==
    IF b = <<>> THEN a ELSE Spread(Put(a, b[1][1], b[1][2]), Tail(b))

Constructor(config) ==
    [version |-> Coalesce(config.version, "preview3"),
     timeout |-> Coalesce(config.timeout, DefaultTimeout),
     autoRefreshToken |-> Coalesce(config.autoRefreshToken, TRUE),
     credentials |-> config.credentials,
     defaultHeaders |-> Spread(<< <<"Content-Type", "application/json">> >>, config.headers)]

----------------------------------------------------------------------------
(* Results of a public call *)

NoResult ==
    [kind |-> "none", status |-> 0, code |-> None, title |-> "", data |-> None, etag |-> None]

ConfigurationError(message) ==
    [kind |-> "ConfigurationError", status |-> 0, code |-> None, title |-> message,
     data |-> None, etag |-> None]

TimeoutError(title) ==
    [kind |-> "ApiError", status |-> 408, code |-> Some("TIMEOUT"), title |-> title,
     data |-> None, etag |-> None]

TransportError ==
    [kind |-> "TransportError", status |-> 0, code |-> None, title |-> "", data |-> None,
     etag |-> None]

SyntaxError ==
    [kind |-> "SyntaxError", status |-> 0, code |-> None, title |-> "", data |-> None,
     etag |-> None]

\* `${prefix} with status ${response.status}`: the title of the default error.
StatusTitle(prefix, status) == prefix \o " with status " \o ToString(status)

\* Mutant: a body that does not parse surfaces as the parse failure.
ErrorFromResponse_ParseFailureMasks(prefix, status, errorData) ==
    IF errorData = None
    THEN SyntaxError
    ELSE [kind |-> "ApiError",
          status |-> IF TruthyNum(errorData[1].status) THEN errorData[1].status[1] ELSE status,
          code |-> errorData[1].code,
          title |-> IF Truthy(errorData[1].title) THEN errorData[1].title[1]
                    ELSE StatusTitle(prefix, status),
          data |-> None, etag |-> None]

\* The ErrorResponse thrown for a non-2xx response: the defaults keyed on the
\* HTTP status, overridden by the truthy fields of a body that parses.
ErrorFromResponse(prefix, status, errorData) ==
    IF errorData = None
    THEN [kind |-> "ApiError", status |-> status, code |-> None,
          title |-> StatusTitle(prefix, status), data |-> None, etag |-> None]
    ELSE [kind |-> "ApiError",
          status |-> IF TruthyNum(errorData[1].status) THEN errorData[1].status[1] ELSE status,
          code |-> errorData[1].code,
          title |-> IF Truthy(errorData[1].title) THEN errorData[1].title[1]
                    ELSE StatusTitle(prefix, status),
          data |-> None, etag |-> None]

Success(status, data) ==
    [kind |-> "ok", status |-> status, code |-> None, title |-> "", data |-> data,
     etag |-> None]

\* The JSON bodies the content endpoints answer a 2xx with.
ItemBody == [id |-> "c1", contentType |-> "page", name |-> "Home"]
PagedBody == [items |-> <<ItemBody>>, pageIndex |-> 0, pageSize |-> 1, totalItemCount |-> 1]

\* What request() returns: {data, status, etag}; an empty ETag header is
\* dropped by `|| undefined`.
ApiResponse(data, status, etag) ==
    [Success(status, Some(data)) EXCEPT !.etag = IF Truthy(etag) THEN etag ELSE None]

\* What listContent() returns: response.data alone.
Unwrapped(response) == [response EXCEPT !.status = 0, !.etag = None]

----------------------------------------------------------------------------
(* The request handed to fetch() *)

NoRequest ==
    [method |-> "", endpoint |-> "", query |-> NoEntries, headers |-> NoEntries,
     body |-> FALSE]

\* The method each wrapper passes to request().
MethodOf(kind) ==
    CASE kind = "createContent" -> Some("POST")
      [] kind = "updateContent" -> Some("PATCH")
      [] kind = "deleteContent" -> Some("DELETE")
      [] OTHER -> None

\* The endpoint each wrapper passes, for the content id (container key) c1.
EndpointOf(kind) ==
    CASE kind = "getContent" -> "/experimental/content/c1"
      [] kind = "listContent" -> "/experimental/content/c1/items"
      [] kind = "createContent" -> "/content"
      [] OTHER -> "/content/c1"

\* createContent and updateContent pass a body.
HasBody(kind) == kind \in {"createContent", "updateContent"}

\* Mutant: pageSize is written before pageIndex.
listParams_SizeFirst(options) ==
    LET withSize == IF options.pageSize # None
                    THEN Put(options.params, "pageSize", options.pageSize[1])
                    ELSE options.params
    IN IF options.pageIndex # None
       THEN Put(withSize, "pageIndex", options.pageIndex[1])
       ELSE withSize

\* The params listContent() builds: options.params, then pageIndex and
\* pageSize where they are not undefined.
listParams(options) ==
    LET withIndex == IF options.pageIndex # None
                     THEN Put(options.params, "pageIndex", options.pageIndex[1])
                     ELSE options.params
    IN IF options.pageSize # None
       THEN Put(withIndex, "pageSize", options.pageSize[1])
       ELSE withIndex

\* The params request() receives from the wrapper of the call.
paramsOf(kind, options) ==
    IF kind = "listContent" THEN listParams(options) ELSE options.params

\* String(value) of a string, an integer or a boolean: the string itself,
\* the decimal digits, 'true' / 'false'.  (ToString tells the three apart:
\* it prints a string in quotes and a boolean in capitals.)
String(value) ==
    LET s == ToString(value) IN
    IF s = "TRUE" THEN "true"
    ELSE IF s = "FALSE" THEN "false"
    ELSE IF SubSeq(s, 1, 1) = "\"" THEN value
    ELSE s

Digits == {"0", "1", "2", "3", "4", "5", "6", "7", "8", "9"}

DigitValue(ch) == CHOOSE d \in 0..9 : ToString(d) = ch

\* The number a string of digits stands for.
RECURSIVE Numeral(_)
Numeral(s) ==
    IF s = "" THEN 0
    ELSE Numeral(SubSeq(s, 1, Len(s) - 1)) * 10 + DigitValue(SubSeq(s, Len(s), Len(s)))

\* The number of a digit string as <<all digits but the last, last digit>>.
IndexValue(key) ==
    <<Numeral(SubSeq(key, 1, Len(key) - 1)), DigitValue(SubSeq(key, Len(key), Len(key)))>>

IndexLess(k1, k2) ==
    \/ IndexValue(k1)[1] < IndexValue(k2)[1]
    \/ IndexValue(k1)[1] = IndexValue(k2)[1] /\ IndexValue(k1)[2] < IndexValue(k2)[2]

\* The key is an array index: the canonical decimal form of an integer from
\* 0 to 2^32 - 2.
IsArrayIndex(key) ==
    /\ Len(key) >= 1
    /\ Len(key) <= 10
    /\ \A i \in 1..Len(key) : SubSeq(key, i, i) \in Digits
    /\ Len(key) > 1 => SubSeq(key, 1, 1) # "0"
    /\ Len(key) = 10 =>
          \/ IndexValue(key)[1] < 429496729
          \/ IndexValue(key)[1] = 429496729 /\ IndexValue(key)[2] < 5

\* The entries of the positions S of an object, by ascending array index.
RECURSIVE IndexEntries(_, _)
IndexEntries(obj, S) ==
    IF S = {} THEN <<>>
    ELSE LET first == CHOOSE i \in S : \A k \in S \ {i} : IndexLess(obj[i][1], obj[k][1])
         IN <<obj[first]>> \o IndexEntries(obj, S \ {first})

\* Object.entries(obj): the array-index keys in ascending order, then the
\* other keys in insertion order.
Entries(obj) ==
    IndexEntries(obj, {i \in DOMAIN obj : IsArrayIndex(obj[i][1])})
        \o SelectSeq(obj, LAMBDA e : ~IsArrayIndex(e[1]))

\* url.searchParams.append(key, String(value)) for every entry, in order.
queryOf(params) ==
    LET entries == Entries(params)
    IN [i \in DOMAIN entries |-> <<entries[i][1], String(entries[i][2])>>]

\* Mutant: the per-call headers are spread last.
buildHeaders_CallerLast(defaultHeaders, options, token, method) ==
    LET withAuth == IF Truthy(token)
                    THEN Put(defaultHeaders, "Authorization", "Bearer " \o token[1])
                    ELSE defaultHeaders
        withType == IF method = Some("PATCH")
                    THEN Put(withAuth, "Content-Type", "application/merge-patch+json")
                    ELSE withAuth
        withMatch == IF Truthy(options.etag)
                     THEN Put(withType, "If-Match", options.etag[1])
                     ELSE withType
    IN Spread(withMatch, options.headers)

\* The headers of request(): the defaults, the per-call headers, then the
\* Authorization, Content-Type and If-Match the code computes.
buildHeaders(defaultHeaders, options, token, method) ==
    LET merged == Spread(defaultHeaders, options.headers)
        withAuth == IF Truthy(token)
                    THEN Put(merged, "Authorization", "Bearer " \o token[1])
                    ELSE merged
        withType == IF method = Some("PATCH")
                    THEN Put(withAuth, "Content-Type", "application/merge-patch+json")
                    ELSE withAuth
    IN IF Truthy(options.etag)
       THEN Put(withType, "If-Match", options.etag[1])
       ELSE withType

\* The url and fetchOptions of a content call, built from the token held.
buildRequest(kind, options, defaultHeaders, token) ==
    [method |-> Coalesce(MethodOf(kind), "GET"),
     endpoint |-> EndpointOf(kind),
     query |-> queryOf(paramsOf(kind, options)),
     headers |-> buildHeaders(defaultHeaders, options, token, MethodOf(kind)),
     body |-> HasBody(kind)]

----------------------------------------------------------------------------
(* One call slot *)

\* pc is the await the call is suspended at; the fields from `credentials` on
\* record what the call was given, what it saw when it started and what it
\* has handed to and received from the transport.
IdleOp ==
    [pc |-> "idle", kind |-> "none", client |-> 0,
     timerArmed |-> FALSE, deadline |-> 0, aborted |-> FALSE,
     status |-> 0,
     credentials |-> None,
     startHeld |-> FALSE, startTok |-> None,
     startHasExpiry |-> FALSE, startExpired |-> FALSE,
     tokenReqs |-> 0, tokenBody |-> None, tokenResponse |-> None,
     contentReqs |-> 0, sentAuth |-> None, overwritten |-> FALSE,
     options |-> NoOptions, sent |-> NoRequest,
     startedDuringExchange |-> FALSE, sentDuringExchange |-> FALSE,
     errorData |-> None,
     result |-> NoResult]

Init ==
    /\ now = StartMs
    /\ \E config \in ClientConfigs :
          /\ settings = [c \in {1} |-> Constructor(config)]
          /\ accessToken = [c \in {1} |-> config.accessToken]
    /\ tokenExpiresAt = [c \in {1} |-> None]
    /\ ops = [o \in {1} |-> IdleOp]

----------------------------------------------------------------------------
(* The token manager *)

\* Mutant: the configured credentials win over the ones passed.
chooseCredentials_ConfiguredFirst(credentials, configured) ==
    IF configured # None THEN configured ELSE credentials

\* `credentials || this.credentials` (a credentials object is always truthy)
chooseCredentials(credentials, configured) ==
    IF credentials # None THEN credentials ELSE configured

\* The JSON body of the token request; act_as only when actAs is truthy.
TokenRequestBody(creds) ==
    [grant_type |-> "client_credentials",
     client_id |-> creds.clientId,
     client_secret |-> creds.clientSecret,
     act_as |-> IF Truthy(creds.actAs) THEN creds.actAs ELSE None]

\* Mutant: the lifetime is added in seconds, not converted to ms.
expiryOf_NoConversion(nowMs, expiresIn) == nowMs + expiresIn

\* Date.now() + expires_in * 1000
expiryOf(nowMs, expiresIn) == nowMs + expiresIn * MsPerSecond

\* Mutant: the token counts as expired only strictly after the buffer starts.
isTokenExpired_Strict(c) ==
    IF ~TruthyNum(tokenExpiresAt[c])
    THEN TRUE
    ELSE now > tokenExpiresAt[c][1] - bufferTime

isTokenExpired(c) ==
    IF ~TruthyNum(tokenExpiresAt[c])
    THEN TRUE
    ELSE now >= tokenExpiresAt[c][1] - bufferTime

\* Mutant: no exchange is started while another call's exchange is in flight.
needsAuthentication_UnlessInFlight(c) ==
    /\ ~Truthy(accessToken[c]) \/ (isTokenExpired(c) /\ settings[c].autoRefreshToken)
    /\ ~\E p \in DOMAIN ops : ops[p].client = c /\ ops[p].pc \in {"authWait", "authBody"}

\* Mutant: an expired token is refreshed whatever autoRefreshToken says.
needsAuthentication_IgnoresAutoRefresh(c) ==
    ~Truthy(accessToken[c]) \/ isTokenExpired(c)

\* Mutant: a held token is never refreshed.
needsAuthentication_OnlyWhenMissing(c) ==
    ~Truthy(accessToken[c])

\* Mutant: a missing token is not looked at, only the expiry.
needsAuthentication_OnlyWhenExpired(c) ==
    isTokenExpired(c) /\ settings[c].autoRefreshToken

\* The condition under which ensureAuthenticated() calls authenticate().
needsAuthentication(c) ==
    ~Truthy(accessToken[c]) \/ (isTokenExpired(c) /\ settings[c].autoRefreshToken)

\* Mutant: the timer is left running.
clearTimeout_Forgotten(armed) == armed

\* clearTimeout(timeoutId): the timer of the call is disarmed.
clearTimeout(armed) == FALSE

\* authenticate() up to its `await fetch(...)`: the credentials check, the
\* timer, and the token request handed to the transport.
authenticateStart(op, c, credentials) ==
    LET creds == chooseCredentials(credentials, settings[c].credentials) IN
    IF creds = None
    THEN [op EXCEPT !.pc = "done",
                    !.result = ConfigurationError("OAuth credentials are required")]
    ELSE [op EXCEPT !.pc = "authWait",
                    !.timerArmed = TRUE,
                    !.deadline = now + settings[c].timeout,
                    !.tokenReqs = @ + 1,
                    !.tokenBody = Some(TokenRequestBody(creds[1]))]

\* Mutant: the request is built without a look at the token state.
ensureAuthenticated_Skipped(op, c) == [op EXCEPT !.pc = "ensured"]

\* ensureAuthenticated() up to the first await it reaches.
ensureAuthenticated(op, c) ==
    IF needsAuthentication(c)
    THEN IF settings[c].credentials = None
         THEN [op EXCEPT !.pc = "done",
                         !.result = ConfigurationError("No access token and no credentials")]
         ELSE authenticateStart(op, c, None)
    ELSE [op EXCEPT !.pc = "ensured"]

\* The token has a recorded expiry and the time t is within the buffer of it.
ExpiredAt(expiry, t) == expiry # None /\ t >= expiry[1] - bufferTime

\* A call starts in a free slot; what it saw of the token state is recorded.
Started(c, kind) ==
    [IdleOp EXCEPT !.kind = kind, !.client = c,
                   !.startHeld = Truthy(accessToken[c]),
                   !.startTok = accessToken[c],
                   !.startHasExpiry = tokenExpiresAt[c] # None,
                   !.startExpired = ExpiredAt(tokenExpiresAt[c], now)]

\* A write of the token state by someone else, seen from a call that is
\* suspended between its ensureAuthenticated() and the build of its request.
NoteWrite(op, c) ==
    IF op.client = c /\ op.pc = "ensured"
    THEN [op EXCEPT !.overwritten = TRUE]
    ELSE op

----------------------------------------------------------------------------
(* Actions *)

\* Mutant: the credentials passed become the credentials of the client.
Authenticate_RemembersCredentials(o, c, credentials) ==
    /\ ops[o].pc = "idle"
    /\ ops' = [ops EXCEPT ![o] =
          authenticateStart([Started(c, "authenticate") EXCEPT !.credentials = credentials],
                            c, credentials)]
    /\ settings' = [settings EXCEPT ![c].credentials = chooseCredentials(credentials, @)]
    /\ UNCHANGED <<now, accessToken, tokenExpiresAt>>

\* client.authenticate(credentials?)
Authenticate(o, c, credentials) ==
    /\ ops[o].pc = "idle"
    /\ ops' = [ops EXCEPT ![o] =
          authenticateStart([Started(c, "authenticate") EXCEPT !.credentials = credentials],
                            c, credentials)]
    /\ UNCHANGED <<now, settings, accessToken, tokenExpiresAt>>

\* Another call on the client has a token exchange in flight.
ExchangeInFlight(o, c) ==
    \E p \in Slots \ {o} : ops[p].client = c /\ ops[p].pc \in {"authWait", "authBody"}

\* Mutant: updateContent goes to request() whatever the version.
unsupportedForVersion_Never(c, kind) == FALSE

\* updateContent() on a preview2 client throws before request() is called.
unsupportedForVersion(c, kind) ==
    kind = "updateContent" /\ settings[c].version = "preview2"

\* getContent / listContent / createContent / updateContent / deleteContent,
\* up to the first await of request(): the version gate of updateContent, then
\* ensureAuthenticated().
Request(o, c, kind, options) ==
    /\ ops[o].pc = "idle"
    /\ ops' = [ops EXCEPT ![o] =
          IF unsupportedForVersion(c, kind)
          THEN [Started(c, kind) EXCEPT !.pc = "done", !.options = options,
                    !.result = ConfigurationError("Use PUT method for preview2")]
          ELSE ensureAuthenticated(
                   [Started(c, kind) EXCEPT !.options = options,
                        !.startedDuringExchange = ExchangeInFlight(o, c)], c)]
    /\ UNCHANGED <<now, settings, accessToken, tokenExpiresAt>>

\* The transport resolves fetch() with a response: clearTimeout, then the
\* body is awaited.
FetchResolve(o, status) ==
    /\ ops[o].pc \in {"authWait", "reqWait"}
    /\ ops' = [ops EXCEPT ![o] =
          [@ EXCEPT !.pc = IF @ = "authWait" THEN "authBody" ELSE "reqBody",
                    !.status = status,
                    !.timerArmed = clearTimeout(@),
                    !.deadline = IF clearTimeout(ops[o].timerArmed) THEN @ ELSE 0]]
    /\ UNCHANGED <<now, settings, accessToken, tokenExpiresAt>>

\* The transport rejects fetch() (DNS failure, connection refused): the catch
\* block clears the timer and rethrows the error as it is.
FetchReject(o) ==
    /\ ops[o].pc \in {"authWait", "reqWait"}
    /\ ops' = [ops EXCEPT ![o] =
          [@ EXCEPT !.pc = "done",
                    !.timerArmed = clearTimeout(@),
                    !.deadline = IF clearTimeout(ops[o].timerArmed) THEN @ ELSE 0,
                    !.result = TransportError]]
    /\ UNCHANGED <<now, settings, accessToken, tokenExpiresAt>>

\* The timer of a call fires: controller.abort() rejects the pending fetch()
\* or body read with an AbortError, which the catch block turns into 408.
TimerFire(o) ==
    /\ ops[o].pc \in {"authWait", "authBody", "reqWait", "reqBody"}
    /\ ops[o].timerArmed
    /\ now >= ops[o].deadline
    /\ ops' = [ops EXCEPT ![o] =
          [@ EXCEPT !.pc = "done",
                    !.aborted = TRUE,
                    !.timerArmed = FALSE,
                    !.deadline = 0,
                    !.result = TimeoutError(IF ops[o].pc \in {"authWait", "authBody"}
                                            THEN "Authentication timeout"
                                            ELSE "Request timeout")]]
    /\ UNCHANGED <<now, settings, accessToken, tokenExpiresAt>>

\* Mutant: the token state is one for all client instances.
AuthSuccess_Global(o, tokenResponse) ==
    /\ ops[o].pc = "authBody"
    /\ ResponseOk(ops[o].status)
    /\ accessToken' = [d \in Clients |-> Some(tokenResponse.access_token)]
    /\ tokenExpiresAt' = [d \in Clients |-> Some(expiryOf(now, tokenResponse.expires_in))]
    /\ ops' = [ops EXCEPT ![o] =
          [@ EXCEPT !.pc = IF ops[o].kind = "authenticate" THEN "done" ELSE "ensured",
                    !.tokenResponse = Some(tokenResponse),
                    !.result = IF ops[o].kind = "authenticate"
                               THEN Success(ops[o].status, Some(tokenResponse))
                               ELSE @]]
    /\ UNCHANGED <<now, settings>>

\* The body of a 2xx token response parses: the token state is written and
\* authenticate() returns the token response.
AuthSuccess(o, tokenResponse) ==
    LET c == ops[o].client IN
    /\ ops[o].pc = "authBody"
    /\ ResponseOk(ops[o].status)
    /\ accessToken' = [accessToken EXCEPT ![c] = Some(tokenResponse.access_token)]
    /\ tokenExpiresAt' = [tokenExpiresAt EXCEPT ![c] = Some(expiryOf(now, tokenResponse.expires_in))]
    /\ ops' = [p \in Slots |->
          IF p = o
          THEN IF ops[o].kind = "authenticate"
               THEN [ops[o] EXCEPT !.pc = "done",
                                   !.tokenResponse = Some(tokenResponse),
                                   !.overwritten = FALSE,
                                   !.result = Success(ops[o].status, Some(tokenResponse))]
               ELSE [ops[o] EXCEPT !.pc = "ensured",
                                   !.tokenResponse = Some(tokenResponse),
                                   !.overwritten = FALSE]
          ELSE NoteWrite(ops[p], c)]
    /\ UNCHANGED <<now, settings>>

\* Mutant: a failed token exchange drops the token that was held.
AuthFailure_ClearsToken(o, errorData) ==
    /\ ops[o].pc = "authBody"
    /\ ~ResponseOk(ops[o].status)
    /\ accessToken' = [accessToken EXCEPT ![ops[o].client] = None]
    /\ tokenExpiresAt' = [tokenExpiresAt EXCEPT ![ops[o].client] = None]
    /\ ops' = [ops EXCEPT ![o] =
          [@ EXCEPT !.pc = "done",
                    !.timerArmed = FALSE,
                    !.deadline = 0,
                    !.errorData = Some(errorData),
                    !.result = ErrorFromResponse("Authentication failed", ops[o].status, errorData)]]
    /\ UNCHANGED <<now, settings>>

\* Mutant: a failed token exchange is sent again.
AuthFailure_Retries(o, errorData) ==
    /\ ops[o].pc = "authBody"
    /\ ~ResponseOk(ops[o].status)
    /\ ops' = [ops EXCEPT ![o] =
          [@ EXCEPT !.pc = "authWait",
                    !.timerArmed = TRUE,
                    !.deadline = now + settings[ops[o].client].timeout,
                    !.errorData = Some(errorData),
                    !.tokenReqs = @ + 1]]
    /\ UNCHANGED <<now, settings, accessToken, tokenExpiresAt>>

\* The token response is not 2xx: the ErrorResponse is thrown.
AuthFailure(o, errorData) ==
    /\ ops[o].pc = "authBody"
    /\ ~ResponseOk(ops[o].status)
    /\ ops' = [ops EXCEPT ![o] =
          [@ EXCEPT !.pc = "done",
                    !.timerArmed = clearTimeout(@),
                    !.deadline = IF clearTimeout(ops[o].timerArmed) THEN @ ELSE 0,
                    !.errorData = Some(errorData),
                    !.result = ErrorFromResponse("Authentication failed", ops[o].status, errorData)]]
    /\ UNCHANGED <<now, settings, accessToken, tokenExpiresAt>>

\* The body of a 2xx token response does not parse: response.json() throws.
AuthBodyUnparseable(o) ==
    /\ ops[o].pc = "authBody"
    /\ ResponseOk(ops[o].status)
    /\ ops' = [ops EXCEPT ![o] =
          [@ EXCEPT !.pc = "done",
                    !.timerArmed = clearTimeout(@),
                    !.deadline = IF clearTimeout(ops[o].timerArmed) THEN @ ELSE 0,
                    !.result = SyntaxError]]
    /\ UNCHANGED <<now, settings, accessToken, tokenExpiresAt>>

\* request() after `await this.ensureAuthenticated()`: the headers are built
\* from the token held now, the timer is started and the content request is
\* handed to the transport.
RequestSend(o) ==
    LET c == ops[o].client IN
    /\ ops[o].pc = "ensured"
    /\ ops' = [ops EXCEPT ![o] =
          [@ EXCEPT !.pc = "reqWait",
                    !.sentAuth = IF Truthy(accessToken[c]) THEN accessToken[c] ELSE None,
                    !.sent = buildRequest(ops[o].kind, ops[o].options,
                                          settings[c].defaultHeaders, accessToken[c]),
                    !.sentDuringExchange = ExchangeInFlight(o, c),
                    !.status = 0,
                    !.overwritten = FALSE,
                    !.timerArmed = TRUE,
                    !.deadline = now + settings[c].timeout,
                    !.contentReqs = @ + 1]]
    /\ UNCHANGED <<now, settings, accessToken, tokenExpiresAt>>

\* The body of a 2xx content response parses: request() returns {data,
\* status, etag}, of which listContent() hands on the data alone.
RequestSuccess(o, etag) ==
    /\ ops[o].pc = "reqBody"
    /\ ResponseOk(ops[o].status)
    /\ ops' = [ops EXCEPT ![o] =
          [@ EXCEPT !.pc = "done",
                    !.result = IF ops[o].kind = "listContent"
                               THEN Unwrapped(ApiResponse(PagedBody, ops[o].status, etag))
                               ELSE ApiResponse(ItemBody, ops[o].status, etag)]]
    /\ UNCHANGED <<now, settings, accessToken, tokenExpiresAt>>

\* Mutant: a rejected content request drops the token.
RequestFailure_ClearsToken(o, errorData) ==
    /\ ops[o].pc = "reqBody"
    /\ ~ResponseOk(ops[o].status)
    /\ accessToken' = [accessToken EXCEPT ![ops[o].client] = None]
    /\ tokenExpiresAt' = [tokenExpiresAt EXCEPT ![ops[o].client] = None]
    /\ ops' = [ops EXCEPT ![o] =
          [@ EXCEPT !.pc = "done",
                    !.timerArmed = FALSE,
                    !.deadline = 0,
                    !.errorData = Some(errorData),
                    !.result = ErrorFromResponse("Request failed", ops[o].status, errorData)]]
    /\ UNCHANGED <<now, settings>>

\* The content response is not 2xx: the ErrorResponse is thrown.
RequestFailure(o, errorData) ==
    /\ ops[o].pc = "reqBody"
    /\ ~ResponseOk(ops[o].status)
    /\ ops' = [ops EXCEPT ![o] =
          [@ EXCEPT !.pc = "done",
                    !.timerArmed = clearTimeout(@),
                    !.deadline = IF clearTimeout(ops[o].timerArmed) THEN @ ELSE 0,
                    !.errorData = Some(errorData),
                    !.result = ErrorFromResponse("Request failed", ops[o].status, errorData)]]
    /\ UNCHANGED <<now, settings, accessToken, tokenExpiresAt>>

\* The body of a 2xx content response does not parse (it is empty, say):
\* response.json() throws.
RequestBodyUnparseable(o) ==
    /\ ops[o].pc = "reqBody"
    /\ ResponseOk(ops[o].status)
    /\ ops' = [ops EXCEPT ![o] =
          [@ EXCEPT !.pc = "done",
                    !.timerArmed = clearTimeout(@),
                    !.deadline = IF clearTimeout(ops[o].timerArmed) THEN @ ELSE 0,
                    !.result = SyntaxError]]
    /\ UNCHANGED <<now, settings, accessToken, tokenExpiresAt>>

\* The caller has taken the outcome of a finished call: its slot is free.
Return(o) ==
    /\ ops[o].pc = "done"
    /\ ops' = [ops EXCEPT ![o] = IdleOp]
    /\ UNCHANGED <<now, settings, accessToken, tokenExpiresAt>>

\* client.setAccessToken(token, expiresIn?)
SetAccessToken(c, token, expiresIn) ==
    /\ accessToken' = [accessToken EXCEPT ![c] = Some(token)]
    /\ tokenExpiresAt' =
          IF TruthyNum(expiresIn)
          THEN [tokenExpiresAt EXCEPT ![c] = Some(now + expiresIn[1] * MsPerSecond)]
          ELSE tokenExpiresAt
    /\ ops' = [p \in Slots |-> NoteWrite(ops[p], c)]
    /\ UNCHANGED <<now, settings>>

\* The read accessors, which return at once.
AccessorNames == {"hasAccessToken", "getTokenExpiresAt", "hasCredentials", "getVersion"}

hasAccessToken(c) == Truthy(accessToken[c])
getTokenExpiresAt(c) == tokenExpiresAt[c]
hasCredentials(c) == settings[c].credentials # None
getVersion(c) == settings[c].version

Accessor(o, c, name) ==
    /\ ops[o].pc = "idle"
    /\ ops' = [ops EXCEPT ![o] =
          [IdleOp EXCEPT !.pc = "done", !.kind = name, !.client = c,
               !.result = Success(0, Some(
                   CASE name = "hasAccessToken" -> hasAccessToken(c)
                     [] name = "getTokenExpiresAt" -> getTokenExpiresAt(c)
                     [] name = "hasCredentials" -> hasCredentials(c)
                     [] OTHER -> getVersion(c)))]]
    /\ UNCHANGED <<now, settings, accessToken, tokenExpiresAt>>

\* Time passes.
Tick ==
    /\ now < MaxNow
    /\ now' = now + StepMs
    /\ UNCHANGED <<settings, accessToken, tokenExpiresAt, ops>>

Next ==
    \/ \E o \in Slots, c \in Clients, credentials \in {None, Some(OverrideCredentials)} :
          Authenticate(o, c, credentials)
    \/ \E o \in Slots, c \in Clients, kind \in ContentKinds : Request(o, c, kind, NoOptions)
    \/ \E o \in Slots, status \in HttpStatuses : FetchResolve(o, status)
    \/ \E o \in Slots : FetchReject(o)
    \/ \E o \in Slots : TimerFire(o)
    \/ \E o \in Slots, tokenResponse \in TokenResponses : AuthSuccess(o, tokenResponse)
    \/ \E o \in Slots, errorData \in ErrorDatas : AuthFailure(o, errorData)
    \/ \E o \in Slots : AuthBodyUnparseable(o)
    \/ \E o \in Slots : RequestSend(o)
    \/ \E o \in Slots, etag \in ResponseETags : RequestSuccess(o, etag)
    \/ \E o \in Slots, errorData \in ErrorDatas : RequestFailure(o, errorData)
    \/ \E o \in Slots : RequestBodyUnparseable(o)
    \/ \E o \in Slots : Return(o)
    \/ \E c \in Clients, token \in SetterTokens, expiresIn \in SetterExpiresIns :
          SetAccessToken(c, token, expiresIn)
    \/ \E o \in Slots, c \in Clients, name \in AccessorNames : Accessor(o, c, name)
    \/ Tick

Spec == Init /\ [][Next]_vars

----------------------------------------------------------------------------
(* One content call at a time with every combination of request options, on
   a client that holds a token the setter may replace or blank *)

InitDispatch ==
    /\ now = StartMs
    /\ \E config \in DispatchConfigs :
          /\ settings = [c \in {1} |-> Constructor(config)]
          /\ accessToken = [c \in {1} |-> config.accessToken]
    /\ tokenExpiresAt = [c \in {1} |-> None]
    /\ ops = [o \in {1} |-> IdleOp]

NextDispatch ==
    \/ \E o \in Slots, c \in Clients, kind \in ContentKinds :
          \E options \in DispatchOptions(kind) : Request(o, c, kind, options)
    \/ \E c \in Clients, token \in SetterTokens : SetAccessToken(c, token, None)
    \/ \E o \in Slots : RequestSend(o)
    \/ \E o \in Slots : FetchResolve(o, 200)
    \/ \E o \in Slots, etag \in ResponseETags : RequestSuccess(o, etag)

SpecDispatch == InitDispatch /\ [][NextDispatch]_vars

----------------------------------------------------------------------------
(* Two content calls in progress at once on a client with credentials and
   auto-refresh: the calls interleave at their awaits *)

ConcurrentConfigs ==
    [accessToken : {None, Some("ext")},
     credentials : {Some(ConfiguredCredentials)},
     timeout : {None},
     version : {None},
     autoRefreshToken : {None},
     headers : {NoEntries}]

InitConcurrent ==
    /\ now = StartMs
    /\ \E config \in ConcurrentConfigs :
          /\ settings = [c \in {1} |-> Constructor(config)]
          /\ accessToken = [c \in {1} |-> config.accessToken]
    /\ tokenExpiresAt = [c \in {1} |-> None]
    /\ ops = [o \in {1, 2} |-> IdleOp]

NextConcurrent ==
    \/ \E o \in Slots, c \in Clients : Request(o, c, "getContent", NoOptions)
    \/ \E o \in Slots : FetchResolve(o, 200)
    \/ \E o \in Slots, tokenResponse \in TokenResponses : AuthSuccess(o, tokenResponse)
    \/ \E o \in Slots : RequestSend(o)
    \/ \E o \in Slots : RequestSuccess(o, None)
    \/ \E o \in Slots : Return(o)
    \/ Tick

SpecConcurrent == InitConcurrent /\ [][NextConcurrent]_vars

----------------------------------------------------------------------------
(* Two client instances and two calls in progress, on the same instance or
   one on each: exchanges, the setter with a lifetime, content requests *)

\* Token responses whose lifetime tells the tokens apart, and apart from
\* the lifetimes the setter is called with.
PairedResponses ==
    {[access_token |-> "tA", expires_in |-> 120, token_type |-> "Bearer"],
     [access_token |-> "tB", expires_in |-> 180, token_type |-> "Bearer"]}

InitInstances ==
    /\ now = StartMs
    /\ \E config \in ConcurrentConfigs :
          /\ settings = [c \in {1, 2} |-> Constructor(config)]
          /\ accessToken = [c \in {1, 2} |-> config.accessToken]
    /\ tokenExpiresAt = [c \in {1, 2} |-> None]
    /\ ops = [o \in {1, 2} |-> IdleOp]

NextInstances ==
    \/ \E o \in Slots, c \in Clients : Authenticate(o, c, None)
    \/ \E o \in Slots, c \in Clients : Request(o, c, "getContent", NoOptions)
    \/ \E o \in Slots : FetchResolve(o, 200)
    \/ \E o \in Slots, tokenResponse \in PairedResponses : AuthSuccess(o, tokenResponse)
    \/ \E o \in Slots : RequestSend(o)
    \/ \E o \in Slots : RequestSuccess(o, None)
    \/ \E c \in Clients, expiresIn \in SetterExpiresIns \ {None} :
          SetAccessToken(c, "ext", expiresIn)

SpecInstances == InitInstances /\ [][NextInstances]_vars

----------------------------------------------------------------------------
(* Properties *)

IsContentCall(op) == op.kind \in ContentKinds

\* updateContent on a preview2 client is rejected before request() is entered.
Gated(op) == op.kind = "updateContent" /\ settings[op.client].version = "preview2"

\* The Authorization header a request built now would carry.
HeldToken(c) == IF Truthy(accessToken[c]) THEN accessToken[c] ELSE None

\* The call moves from `await this.ensureAuthenticated()` to its fetch().
SendsRequest(o) == ops[o].pc = "ensured" /\ ops'[o].pc = "reqWait"

\* A content call on a client without auto-refresh that held a token when it started.
C1_Case(op) ==
    /\ IsContentCall(op)
    /\ op.startHeld
    /\ ~settings[op.client].autoRefreshToken

C1_State ==
    \A o \in Slots :
        C1_Case(ops[o]) =>
            /\ ops[o].tokenReqs = 0
            /\ ops[o].tokenBody = None
            /\ ops[o].tokenResponse = None
            /\ ops[o].pc \notin {"authWait", "authBody"}

C1_Step ==
    \A o \in Slots :
        (C1_Case(ops[o]) /\ SendsRequest(o)) =>
            /\ ops'[o].sentAuth = HeldToken(ops[o].client)
            /\ (~ops[o].overwritten => ops'[o].sentAuth = ops[o].startTok)

\* C1: a content call on a client with autoRefreshToken off that holds a token
\* never sends a token request, expired token or not, and the content request
\* it sends carries the token it held (the stale one, unless setAccessToken
\* replaced it while the call was suspended).
C1_NoExchangeWhenAutoRefreshOff == []C1_State /\ [][C1_Step]_vars

C1_Witness ==
    \E o \in Slots :
        /\ C1_Case(ops[o])
        /\ ops[o].startExpired
        /\ ops[o].contentReqs = 1
        /\ ops[o].tokenReqs = 0
        /\ ops[o].sentAuth = ops[o].startTok

\* C2 (as claimed): a content call that starts while a token is held with no
\* recorded expiry treats it as non-expiring: it sends no token request and
\* does not fail for lack of credentials.
C2_TokenWithoutExpiryNeverExpires ==
    \A o \in Slots :
        (IsContentCall(ops[o]) /\ ops[o].startHeld /\ ~ops[o].startHasExpiry) =>
            /\ ops[o].tokenReqs = 0
            /\ ops[o].result.title # "No access token and no credentials"

\* A content call on a client with credentials and auto-refresh that started
\* with no token, or with a token within the buffer of its recorded expiry.
C3_Case(op) ==
    /\ IsContentCall(op)
    /\ settings[op.client].credentials # None
    /\ settings[op.client].autoRefreshToken
    /\ (~op.startHeld \/ op.startExpired)

CarriesOwnToken(op) ==
    /\ op.tokenResponse # None
    /\ op.sentAuth = Some(op.tokenResponse[1].access_token)

\* C3 (as claimed): the content request of such a call is sent only after its
\* own token exchange succeeded, and carries the token that exchange obtained.
C3_RequestCarriesNewToken ==
    \A o \in Slots :
        (C3_Case(ops[o]) /\ ops[o].contentReqs = 1) =>
            /\ ops[o].tokenReqs = 1
            /\ CarriesOwnToken(ops[o])

C3_State ==
    \A o \in Slots :
        C3_Case(ops[o]) =>
            /\ Gated(ops[o]) => (ops[o].tokenReqs = 0 /\ ops[o].contentReqs = 0)
            /\ ~Gated(ops[o]) =>
                  /\ ops[o].tokenReqs = 1
                  /\ ops[o].tokenBody =
                        Some(TokenRequestBody(settings[ops[o].client].credentials[1]))
            /\ ops[o].contentReqs = 1 => ops[o].tokenResponse # None

C3_Step ==
    \A o \in Slots :
        (C3_Case(ops[o]) /\ SendsRequest(o)) =>
            /\ ops'[o].sentAuth = HeldToken(ops[o].client)
            /\ (~ops[o].overwritten =>
                  ops'[o].sentAuth = Some(ops[o].tokenResponse[1].access_token))

\* C3 (amended): such a call, unless it is an updateContent rejected by the
\* preview2 gate, sends a token request with the configured credentials as it
\* starts; its content request is sent only after that exchange succeeded and
\* carries the token held when the request is built, which is the newly
\* obtained one unless the token was replaced in between.
C3_ExchangeBeforeRequest == []C3_State /\ [][C3_Step]_vars

C3_Witness ==
    \E o \in Slots :
        /\ C3_Case(ops[o])
        /\ ops[o].startExpired
        /\ ops[o].contentReqs = 1
        /\ CarriesOwnToken(ops[o])

\* A content call that started with no token on a client without credentials.
C4_Case(op) ==
    /\ IsContentCall(op)
    /\ ~op.startHeld
    /\ settings[op.client].credentials = None

\* C4: with no token held and no credentials configured, every content call
\* fails with a ConfigurationError (the one of ensureAuthenticated, unless the
\* preview2 gate of updateContent rejected the call first) and nothing is
\* sent, neither to the token endpoint nor to the content endpoint.
C4_NoTokenNoCredentialsFails ==
    \A o \in Slots :
        C4_Case(ops[o]) =>
            /\ ops[o].pc = "done"
            /\ ops[o].result.kind = "ConfigurationError"
            /\ ~Gated(ops[o]) => ops[o].result.title = "No access token and no credentials"
            /\ ops[o].tokenReqs = 0
            /\ ops[o].contentReqs = 0

C4_Witness ==
    \E o \in Slots :
        /\ C4_Case(ops[o])
        /\ ops[o].kind = "deleteContent"
        /\ ops[o].result.title = "No access token and no credentials"

\* C5: authenticate(credentials?) sends the token request with the passed
\* credentials when given, else with the configured ones; with neither it
\* fails with a ConfigurationError and sends nothing.
C5_CredentialsPassedElseConfigured ==
    \A o \in Slots :
        ops[o].kind = "authenticate" =>
            LET op == ops[o]
                used == IF op.credentials # None
                        THEN op.credentials
                        ELSE settings[op.client].credentials
            IN  IF used = None
                THEN /\ op.pc = "done"
                     /\ op.result.kind = "ConfigurationError"
                     /\ op.tokenReqs = 0
                     /\ op.tokenBody = None
                ELSE /\ op.tokenReqs = 1
                     /\ op.tokenBody # None
                     /\ op.tokenBody[1].client_id = used[1].clientId
                     /\ op.tokenBody[1].client_secret = used[1].clientSecret

C5_Witness ==
    \E o \in Slots :
        /\ ops[o].kind = "authenticate"
        /\ ops[o].credentials = Some(OverrideCredentials)
        /\ settings[ops[o].client].credentials = Some(ConfiguredCredentials)
        /\ ops[o].tokenBody # None
        /\ ops[o].tokenBody[1].client_id = "ovr-id"

\* The step in which a call reads the body of a 2xx token response.
C6_Step ==
    \A o \in Slots :
        (ops[o].pc = "authBody" /\ ops'[o].tokenResponse # None) =>
            LET r == ops'[o].tokenResponse[1]
                c == ops[o].client
            IN  /\ accessToken'[c] = Some(r.access_token)
                /\ tokenExpiresAt'[c] = Some(now + r.expires_in * 1000)
                /\ ops[o].kind = "authenticate" =>
                      /\ ops'[o].pc = "done"
                      /\ ops'[o].result.kind = "ok"
                      /\ ops'[o].result.data = Some(r)

\* C6: a successful token exchange returning {access_token = t, expires_in = L}
\* stores t and the expiry (time of processing) + L * 1000 ms, and
\* authenticate() returns the whole token response.
C6_ExchangeStoresTokenAndExpiry == [][C6_Step]_vars

C6_Witness ==
    \E o \in Slots :
        /\ ops[o].kind = "authenticate"
        /\ ops[o].result.kind = "ok"
        /\ ops[o].result.data[1].expires_in = 60
        /\ accessToken[ops[o].client] = Some(ops[o].result.data[1].access_token)
        /\ tokenExpiresAt[ops[o].client] = Some(now + 60000)

\* C7: isTokenExpired() is true when no expiry is recorded, true when
\* now >= expiry - 30000 ms, and false otherwise.
C7_ExpiredIffNoExpiryOrWithinBuffer ==
    \A c \in Clients :
        isTokenExpired(c) <=>
            (tokenExpiresAt[c] = None \/ now >= tokenExpiresAt[c][1] - 30000)

C7_Witness ==
    \E c \in Clients :
        /\ tokenExpiresAt[c] # None
        /\ now = tokenExpiresAt[c][1] - 30000
        /\ isTokenExpired(c)

\* C8 (as claimed): setAccessToken(token, L) with a lifetime L given, 0
\* included, stores the token and the expiry now + L * 1000 ms, as
\* authenticate() computes it.
C8_SetterStoresExpiryForEveryLifetime ==
    [][\A c \in Clients, token \in SetterTokens, expiresIn \in SetterExpiresIns \ {None} :
          SetAccessToken(c, token, expiresIn) =>
              /\ accessToken'[c] = Some(token)
              /\ tokenExpiresAt'[c] = Some(expiryOf(now, expiresIn[1]))]_vars

C9_State ==
    \A o \in Slots :
        /\ ops[o].pc \in {"authWait", "reqWait"} => ops[o].timerArmed
        /\ ops[o].pc \in {"authBody", "ensured", "reqBody", "done"} => ~ops[o].timerArmed
        /\ ops[o].aborted =>
              /\ ops[o].pc = "done"
              /\ ops[o].result.kind = "ApiError"
              /\ ops[o].result.status = 408
              /\ ops[o].result.code = Some("TIMEOUT")
        /\ ops[o].result.code = Some("TIMEOUT") => ops[o].aborted

C9_Step ==
    \A o \in Slots :
        /\ ops[o].pc \in {"authBody", "reqBody"} => ~ops'[o].aborted
        /\ (ops[o].pc = "done" /\ ops'[o].pc = "done") => ops'[o].result = ops[o].result

\* C9: for each outbound call the timer is pending exactly while fetch() is
\* pending; if it fires then, the call is aborted and fails with 408 TIMEOUT,
\* and a 408 TIMEOUT has no other origin; once the transport has resolved,
\* the timer is cancelled and the outcome never becomes a timeout.
C9_TimeoutOrTransportDecides == []C9_State /\ [][C9_Step]_vars

C9_Witness ==
    \E o \in Slots :
        /\ ops[o].aborted
        /\ ops[o].contentReqs = 1
        /\ ops[o].result.code = Some("TIMEOUT")

\* C10 (as claimed): the deadline of a content request stays armed until the
\* response body has been read.
C10_DeadlineCoversBody ==
    \A o \in Slots : ops[o].pc = "reqBody" => ops[o].timerArmed

----------------------------------------------------------------------------
(* Failures of the exchange and of the request *)

\* The call has ended on a non-2xx response.
EndedOnErrorStatus(op) == op.pc = "done" /\ op.status # 0 /\ ~ResponseOk(op.status)

\* The title prefix of the default error: of authenticate() until the call
\* has sent its content request, of request() after.
DefaultPrefix(op) == IF op.contentReqs = 0 THEN "Authentication failed" ELSE "Request failed"

\* C11: a call that ends on a non-2xx response fails with an ApiError; a body
\* that parses gives the error its title (when it has one) and its code, a
\* body that does not parse leaves the HTTP status and the generic title
\* "<prefix> with status <status>", and never a parse error.
C11_NonOkResponseIsApiError ==
    \A o \in Slots :
        EndedOnErrorStatus(ops[o]) =>
            /\ ops[o].errorData # None
            /\ ops[o].result.kind = "ApiError"
            /\ LET body == ops[o].errorData[1]
                   generic == StatusTitle(DefaultPrefix(ops[o]), ops[o].status)
               IN IF body = None
                  THEN /\ ops[o].result.status = ops[o].status
                       /\ ops[o].result.title = generic
                       /\ ops[o].result.code = None
                  ELSE /\ ops[o].result.title =
                            (IF Truthy(body[1].title) THEN body[1].title[1] ELSE generic)
                       /\ ops[o].result.code = body[1].code

C11_Witness ==
    \E o \in Slots :
        /\ EndedOnErrorStatus(ops[o])
        /\ ops[o].contentReqs = 1
        /\ ops[o].errorData = Some(None)
        /\ ops[o].result.kind = "ApiError"
        /\ ops[o].result.title = "Request failed with status 404"

\* C12 (as claimed): the status of the ApiError of a non-2xx response is the
\* HTTP status of that response, whatever the body says.
C12_StatusIsHttpStatus ==
    \A o \in Slots :
        EndedOnErrorStatus(ops[o]) => ops[o].result.status = ops[o].status

C13_State ==
    \A o \in Slots :
        (Gated(ops[o]) /\ ops[o].pc # "idle") =>
            /\ ops[o].pc = "done"
            /\ ops[o].result = ConfigurationError("Use PUT method for preview2")
            /\ ops[o].tokenReqs = 0
            /\ ops[o].tokenBody = None
            /\ ops[o].contentReqs = 0
            /\ ops[o].sent = NoRequest

C13_Step ==
    \A o \in Slots :
        (ops[o].pc = "idle" /\ Gated(ops'[o])) =>
            /\ accessToken' = accessToken
            /\ tokenExpiresAt' = tokenExpiresAt

\* C13: updateContent on a preview2 client ends at once with the
\* ConfigurationError of the version gate: no token request and no content
\* request is sent, whatever the token state, and the token state is as it was.
C13_Preview2UpdateSendsNothing == []C13_State /\ [][C13_Step]_vars

C13_Witness ==
    \E o \in Slots :
        /\ Gated(ops[o])
        /\ ops[o].pc = "done"
        /\ ~ops[o].startHeld
        /\ settings[ops[o].client].credentials # None
        /\ settings[ops[o].client].autoRefreshToken
        /\ ops[o].result.kind = "ConfigurationError"

IsFailure(result) ==
    result.kind \in {"ConfigurationError", "ApiError", "TransportError", "SyntaxError"}

C19_State ==
    \A o \in Slots :
        /\ ops[o].tokenReqs <= 1
        /\ ops[o].contentReqs <= 1
        /\ ops[o].pc = "done" <=> ops[o].result # NoResult

C19_Step ==
    \A o \in Slots :
        \* a non-2xx response ends the call with its ApiError
        /\ (/\ ops[o].pc \in {"authBody", "reqBody"}
            /\ ~ResponseOk(ops[o].status)
            /\ ops'[o].pc # ops[o].pc)
              => (ops'[o].pc = "done" /\ ops'[o].result.kind = "ApiError")
        \* a pending fetch() either resolves or ends the call with a failure
        /\ (/\ ops[o].pc \in {"authWait", "reqWait"}
            /\ ops'[o].pc \notin {"authWait", "reqWait", "authBody", "reqBody"})
              => (ops'[o].pc = "done" /\ IsFailure(ops'[o].result))
        \* the step that ends a call in failure sends nothing
        /\ (ops[o].pc \notin {"idle", "done"} /\ IsFailure(ops'[o].result))
              => (/\ ops'[o].tokenReqs = ops[o].tokenReqs
                  /\ ops'[o].contentReqs = ops[o].contentReqs)
        \* the outcome stays as it is until the caller has taken it
        /\ ops[o].pc = "done" => ops'[o] \in {ops[o], IdleOp}

\* C19: one public call sends at most one token request and at most one
\* content request; a failure (ConfigurationError, non-2xx ApiError, timeout,
\* transport error) ends the call in the step it occurs in, with that failure
\* as the outcome and without another request being sent.
C19_NoRetryNoSwallow == []C19_State /\ [][C19_Step]_vars

C19_Witness ==
    \E o \in Slots :
        /\ IsContentCall(ops[o])
        /\ EndedOnErrorStatus(ops[o])
        /\ ops[o].tokenReqs = 1
        /\ ops[o].contentReqs = 0
        /\ ops[o].result.kind = "ApiError"

\* C20 (as claimed): a content call whose token exchange failed has tried the
\* exchange again before it reports the failure.
C20_RetriesAuthentication ==
    \A o \in Slots :
        (/\ IsContentCall(ops[o])
         /\ EndedOnErrorStatus(ops[o])
         /\ ops[o].contentReqs = 0) => ops[o].tokenReqs >= 2

----------------------------------------------------------------------------
(* The request that is sent *)

HeaderNames == {"Content-Type", "Authorization", "If-Match", "X-Site"}

\* The place of a key among the entries of an object.
IndexOf(obj, key) == CHOOSE i \in DOMAIN obj : obj[i][1] = key

\* C14: every header of a request that was sent has the value of the last
\* layer that names it, in the order If-Match from a supplied etag, the
\* merge-patch Content-Type of a PATCH, the Authorization computed from the
\* token held, the per-call headers, the default headers.
C14_HeaderPriority ==
    \A o \in Slots :
        ops[o].contentReqs = 1 =>
            \A name \in HeaderNames :
                Get(ops[o].sent.headers, name) =
                    IF name = "If-Match" /\ Truthy(ops[o].options.etag)
                    THEN ops[o].options.etag
                    ELSE IF name = "Content-Type" /\ ops[o].sent.method = "PATCH"
                    THEN Some("application/merge-patch+json")
                    ELSE IF name = "Authorization" /\ ops[o].sentAuth # None
                    THEN Some("Bearer " \o ops[o].sentAuth[1])
                    ELSE IF HasKey(ops[o].options.headers, name)
                    THEN Get(ops[o].options.headers, name)
                    ELSE Get(settings[ops[o].client].defaultHeaders, name)

C14_Witness ==
    \E o \in Slots :
        /\ ops[o].kind = "updateContent"
        /\ ops[o].contentReqs = 1
        /\ ops[o].options.etag = Some("W/1")
        /\ Get(ops[o].options.headers, "Authorization") = Some("Basic caller")
        /\ Get(ops[o].options.headers, "Content-Type") = Some("text/plain")
        /\ Get(ops[o].sent.headers, "If-Match") = Some("W/1")
        /\ Get(ops[o].sent.headers, "Content-Type") = Some("application/merge-patch+json")
        /\ Get(ops[o].sent.headers, "Authorization") = Some("Bearer ext")
        /\ Get(ops[o].sent.headers, "X-Site") = Some("s2")

\* The value listContent() was given for a paging key: the option, else the
\* entry of options.params.
PageValue(options, key, option) ==
    IF option # None THEN option ELSE Get(options.params, key)

\* The query of a listContent request holds a paging key exactly when a value
\* was given for it, and then that value; the method is GET; the outcome of a
\* success is the body alone.
C15_QueryAndOutcome(op) ==
    /\ op.sent.method = "GET"
    /\ op.sent.endpoint = "/experimental/content/c1/items"
    /\ LET index == PageValue(op.options, "pageIndex", op.options.pageIndex)
           size == PageValue(op.options, "pageSize", op.options.pageSize)
       IN /\ Get(op.sent.query, "pageIndex") =
                 (IF index = None THEN None ELSE Some(ToString(index[1])))
          /\ Get(op.sent.query, "pageSize") =
                 (IF size = None THEN None ELSE Some(ToString(size[1])))
    /\ (HasKey(op.options.params, "locale")
        /\ op.options.pageIndex = None /\ op.options.pageSize = None) =>
          op.sent.query = << <<"9", "x\\">>, <<"10", "a\"b">>, <<"locale", "en">>,
                             <<"draft", "false">>, <<"all", "true">> >>
    /\ (op.pc = "done" /\ op.result.kind = "ok") =>
          op.result = [Success(0, Some(PagedBody)) EXCEPT !.etag = None]

BothPageOptions(op) == op.options.pageIndex # None /\ op.options.pageSize # None

IndexBeforeSize(query) == IndexOf(query, "pageIndex") < IndexOf(query, "pageSize")

\* C15 (as claimed): whenever pageIndex and pageSize are both supplied,
\* pageIndex comes before pageSize in the query.
C15_ListQueryAsClaimed ==
    \A o \in Slots :
        (ops[o].kind = "listContent" /\ ops[o].contentReqs = 1) =>
            /\ C15_QueryAndOutcome(ops[o])
            /\ BothPageOptions(ops[o]) => IndexBeforeSize(ops[o].sent.query)

\* options.params has a pageSize entry and no pageIndex entry before it.
ParamsPutSizeFirst(params) ==
    /\ HasKey(params, "pageSize")
    /\ ~(HasKey(params, "pageIndex")
         /\ IndexOf(params, "pageIndex") < IndexOf(params, "pageSize"))

\* C15: a listContent request is a GET whose query holds pageIndex and
\* pageSize only where a value was given (as an option, else as an entry of
\* options.params); when the query holds both, pageIndex comes before
\* pageSize, except that pageSize comes first exactly when options.params
\* has a pageSize entry with no pageIndex entry before it; a success
\* returns the paged body without status and etag.
C15_ListQuery ==
    \A o \in Slots :
        (ops[o].kind = "listContent" /\ ops[o].contentReqs = 1) =>
            /\ C15_QueryAndOutcome(ops[o])
            /\ (HasKey(ops[o].sent.query, "pageIndex") /\ HasKey(ops[o].sent.query, "pageSize"))
                  => (IndexBeforeSize(ops[o].sent.query)
                        <=> ~ParamsPutSizeFirst(ops[o].options.params))

C15_Witness ==
    \E o \in Slots :
        /\ ops[o].kind = "listContent"
        /\ ops[o].pc = "done"
        /\ ops[o].options.pageIndex = Some(1)
        /\ ops[o].options.pageSize = Some(50)
        /\ ops[o].options.params = << <<"depth", 2>> >>
        /\ ops[o].sent.query = << <<"depth", "2">>, <<"pageIndex", "1">>, <<"pageSize", "50">> >>
        /\ ops[o].result.data = Some(PagedBody)

----------------------------------------------------------------------------
(* Concurrent calls *)

InExchange(op) == op.pc \in {"authWait", "authBody"}

C17_State ==
    \A o \in Slots :
        (C3_Case(ops[o]) /\ ops[o].startedDuringExchange) =>
            /\ ops[o].tokenReqs = 1
            /\ ops[o].tokenBody =
                  Some(TokenRequestBody(settings[ops[o].client].credentials[1]))

C17_Step ==
    \A o \in Slots :
        \* started while another exchange is in flight: a second one is sent
        /\ (/\ ops[o].pc = "idle"
            /\ C3_Case(ops'[o])
            /\ \E p \in Slots \ {o} : InExchange(ops[p]))
              => InExchange(ops'[o])
        \* sent while another exchange is in flight: the token held now is used
        /\ (/\ SendsRequest(o)
            /\ \E p \in Slots \ {o} : InExchange(ops[p]))
              => (/\ ops'[o].sentDuringExchange
                  /\ ops'[o].sentAuth = HeldToken(ops[o].client))

\* C17: nothing serialises the calls around ensureAuthenticated(): a content
\* call that starts with no token or an expired one while another call's
\* exchange is in flight sends a token request of its own, and a call that
\* builds its request while another call's exchange is in flight sends it
\* with the token held then, which that exchange is about to replace.
C17_NoMutualExclusion == []C17_State /\ [][C17_Step]_vars

\* Both interleavings in one state: two calls that started without a usable
\* token, the second while the exchange of the first was in flight; the first
\* has sent its request with the token of its exchange while the exchange of
\* the second is still in flight.
C17_Witness ==
    \E a \in Slots, b \in Slots :
        /\ a # b
        /\ C3_Case(ops[a]) /\ C3_Case(ops[b])
        /\ ops[b].startedDuringExchange
        /\ ops[b].pc = "authWait"
        /\ ops[a].tokenReqs = 1
        /\ ops[a].pc = "reqWait"
        /\ ops[a].sentDuringExchange
        /\ ops[a].sentAuth = accessToken[ops[a].client]

\* C18 (as claimed): at most one token exchange is in flight on a client at
\* any time.
C18_SingleExchangeInFlight ==
    \A c \in Clients :
        Cardinality({o \in Slots : ops[o].client = c /\ InExchange(ops[o])}) <= 1

\* C16 (as claimed): a deleteContent whose request was answered with a 2xx
\* ends in a success that carries the HTTP status, empty body or not.
C16_DeleteOkResponseSucceeds ==
    \A o \in Slots :
        (/\ ops[o].kind = "deleteContent"
         /\ ops[o].pc = "done"
         /\ ops[o].contentReqs = 1
         /\ ResponseOk(ops[o].status)) =>
            /\ ops[o].result.kind = "ok"
            /\ ops[o].result.status = ops[o].status

----------------------------------------------------------------------------
(* Who writes the token state *)

TokenStateUnchanged(c) ==
    /\ accessToken'[c] = accessToken[c]
    /\ tokenExpiresAt'[c] = tokenExpiresAt[c]

\* The step completes a token exchange of a call on client c.
ExchangeCompletes(c) ==
    \E o \in Slots :
        /\ ops[o].client = c
        /\ ops[o].pc = "authBody"
        /\ ResponseOk(ops[o].status)
        /\ ops[o].tokenResponse = None
        /\ ops'[o].tokenResponse # None

\* The step is a setAccessToken() on client c.
SetterRuns(c) ==
    \E token \in SetterTokens, expiresIn \in SetterExpiresIns :
        SetAccessToken(c, token, expiresIn)

C21_Step ==
    \A c \in Clients :
        \/ TokenStateUnchanged(c)
        \/ /\ ExchangeCompletes(c) \/ SetterRuns(c)
           /\ \A d \in Clients \ {c} : TokenStateUnchanged(d)

\* C21: the token and the expiry of a client instance change only in a step
\* of that instance (the end of one of its exchanges, its setAccessToken),
\* and that step leaves the token and expiry of every other instance as
\* they were.
C21_InstancesDoNotShareTokenState == [][C21_Step]_vars

C21_Witness ==
    /\ accessToken[1] = Some("tA")
    /\ tokenExpiresAt[1] = Some(expiryOf(StartMs, 120))
    /\ accessToken[2] = Some("ext")
    /\ tokenExpiresAt[2] = None
    /\ \E o \in Slots : ops[o].client = 1 /\ ops[o].contentReqs = 1

C22_Step ==
    \A c \in Clients :
        /\ TokenStateUnchanged(c) \/ ExchangeCompletes(c) \/ SetterRuns(c)
        /\ \A o \in Slots :
              (/\ ops'[o] # ops[o]
               /\ ops[o].pc \in {"ensured", "reqWait", "reqBody"} \/ ops'[o].kind \in AccessorNames
               /\ ops'[o].pc # ops[o].pc) => TokenStateUnchanged(c)

\* C22: the token state changes only in the step that ends a token exchange
\* successfully and in setAccessToken(); the steps of a content call from
\* the build of its request to its outcome, whatever the response, and the
\* read accessors leave it as it is.
C22_OnlyExchangeAndSetterWrite == [][C22_Step]_vars

C22_Witness ==
    \E o \in Slots :
        /\ IsContentCall(ops[o])
        /\ EndedOnErrorStatus(ops[o])
        /\ ops[o].contentReqs = 1
        /\ ops[o].tokenReqs = 1
        /\ accessToken[ops[o].client] = Some(ops[o].tokenResponse[1].access_token)
        /\ tokenExpiresAt[ops[o].client] # None

----------------------------------------------------------------------------
(* ensureAuthenticated() before the request; what a failed exchange leaves *)

\* What ensureAuthenticated() finds when the call starts: no token, or an
\* expired one (one without expiry counts as expired) with auto-refresh on.
StartNeededExchange(op) ==
    \/ ~op.startHeld
    \/ /\ settings[op.client].autoRefreshToken
       /\ ~op.startHasExpiry \/ op.startExpired

\* The failures authenticate() ends with once its token request is sent.
ExchangeFailures(op) ==
    {TimeoutError("Authentication timeout"), TransportError, SyntaxError}
        \cup (IF op.errorData # None
               THEN {ErrorFromResponse("Authentication failed", op.status, op.errorData[1])}
               ELSE {})

C23_State ==
    \A o \in Slots :
        (IsContentCall(ops[o]) /\ ~Gated(ops[o]) /\ ops[o].pc # "idle") =>
            /\ (ops[o].pc \in {"ensured", "reqWait", "reqBody"} \/ ops[o].contentReqs = 1) =>
                  IF StartNeededExchange(ops[o])
                  THEN ops[o].tokenReqs = 1 /\ ops[o].tokenResponse # None
                  ELSE ops[o].tokenReqs = 0
            /\ (ops[o].pc = "done" /\ ops[o].contentReqs = 0) =>
                  /\ StartNeededExchange(ops[o])
                  /\ ops[o].sent = NoRequest
                  /\ IF ops[o].tokenReqs = 0
                     THEN ops[o].result =
                            ConfigurationError("No access token and no credentials")
                     ELSE ops[o].result \in ExchangeFailures(ops[o])

\* C23: a content call builds and sends its request only after its
\* ensureAuthenticated() step is through (with an exchange of its own that
\* succeeded where the token state called for one); a call that ends without
\* having sent a content request ends with the failure of that step as it
\* is: the ConfigurationError, or the timeout, transport error or ApiError
\* of its token exchange.
C23_EnsureAuthenticatedFirst == C23_State

C23_Witness ==
    \E o \in Slots :
        /\ IsContentCall(ops[o])
        /\ ops[o].pc = "done"
        /\ ops[o].tokenReqs = 1
        /\ ops[o].contentReqs = 0
        /\ ops[o].result = TimeoutError("Authentication timeout")

C24_Step ==
    \A o \in Slots :
        (/\ ops[o].pc \in {"idle", "authWait", "authBody"}
         /\ ops'[o].pc = "done"
         /\ IsFailure(ops'[o].result)) => \A c \in Clients : TokenStateUnchanged(c)

\* C24: the step in which a token exchange ends without success (missing
\* credentials, non-2xx response, timeout, transport error) leaves the
\* stored token and expiry as they are.
C24_FailedExchangeKeepsTokenState == [][C24_Step]_vars

C24_Witness ==
    \E o \in Slots :
        /\ ops[o].kind = "authenticate"
        /\ EndedOnErrorStatus(ops[o])
        /\ ops[o].startHeld
        /\ ops[o].startHasExpiry
        /\ accessToken[ops[o].client] = ops[o].startTok
        /\ tokenExpiresAt[ops[o].client] # None

\* A content call on a client without configured credentials and with
\* auto-refresh that started with an expired token.
C25_Case(op) ==
    /\ IsContentCall(op)
    /\ settings[op.client].credentials = None
    /\ settings[op.client].autoRefreshToken
    /\ op.startHeld
    /\ op.startExpired

C25_State ==
    \A o \in Slots :
        /\ (IsContentCall(ops[o]) /\ ops[o].tokenReqs = 1) =>
              /\ settings[ops[o].client].credentials = Some(ConfiguredCredentials)
              /\ ops[o].tokenBody = Some(TokenRequestBody(ConfiguredCredentials))
              /\ ops[o].tokenBody[1].act_as = None
        /\ (C25_Case(ops[o]) /\ ops[o].pc # "idle") =>
              /\ ops[o].pc = "done"
              /\ ops[o].result.kind = "ConfigurationError"
              /\ ops[o].tokenReqs = 0
              /\ ops[o].contentReqs = 0
              /\ ops[o].sent = NoRequest

\* C25: authenticate(credentials) leaves the configured credentials as they
\* are; the token request of every content call carries the configured
\* credentials (no act_as of an override); on a client without configured
\* credentials and with auto-refresh, a content call that starts with an
\* expired token ends with a ConfigurationError and sends nothing.
C25_OverrideIsNotRemembered == []C25_State /\ [][settings' = settings]_vars

C25_Witness ==
    \E o \in Slots :
        /\ C25_Case(ops[o])
        /\ ops[o].startTok \in {Some(t) : t \in TokenPool}
        /\ ops[o].pc = "done"
        /\ ops[o].result = ConfigurationError("No access token and no credentials")

\* What the claim takes one write of the token state to store: the token
\* and expiry of an exchange response, and for the setter called with a
\* lifetime n (0 included) the token with the expiry now + n * 1000.
C26_PairsOfOneWrite ==
    {<<Some(r.access_token), Some(expiryOf(StartMs, r.expires_in))>> : r \in PairedResponses}
        \cup {<<Some("ext"), Some(StartMs + n[1] * MsPerSecond)>> :
                 n \in SetterExpiresIns \ {None}}

\* C26 (as claimed): the stored token and the stored expiry come from the
\* same write, whatever the order of the exchanges and of the setter calls
\* that supply a lifetime (the clock stands still here); before the first
\* write the token of the constructor has no expiry.
C26_ExpiryBelongsToToken ==
    \A c \in Clients :
        \/ tokenExpiresAt[c] = None /\ accessToken[c] \in {None, Some("ext")}
        \/ <<accessToken[c], tokenExpiresAt[c]>> \in C26_PairsOfOneWrite

====
